---------------------------- MODULE Spec2Model ----------------------------
(***************************************************************************)
(* A model of the AR-Detection scripts (src/AR_Detection):                 *)
(*   compute_ivt-anomaly.py  background/anomaly decomposition of IVT       *)
(*   detect_ARs.py           per-slice detection of AR candidates          *)
(*   trace_ARs.py            linkage of candidates into tracks, filtering  *)
(*                           and the track file                            *)
(* and of what surrounds them: the main of detect_ARs.py on one file       *)
(* (shape check, output files, slice loop) and the batches of __main__     *)
(* (skip-if-done loop, pool.map).                                          *)
(* The scripts delegate the numerical kernels to libraries (skimage's      *)
(* morphology, ipart's AR_detector and AR_tracer) whose code is not part   *)
(* of the source tree; those kernels are modelled from the specification   *)
(* and are marked as such where they are defined.                          *)
(***************************************************************************)
EXTENDS Integers, Sequences, FiniteSets, TLC

VARIABLES
    pc,        \* position of the running script
    ivt,       \* raw field (time, lat, lon), the variable read by readVar
    ivt_mean,  \* climatological mean (lat, lon), IVT_mean of __main__
    kernel,    \* structuring element half lengths <<t, s>> given to filterData
    lm,        \* eroded field (the marker of the reconstruction)
    rec,       \* the reconstruction while it is iterated
    niter,     \* number of dilate-and-clip sweeps done so far
    ivtrec,    \* returned field ivt_rec
    ivtano,    \* returned field ivt_ano
    fout,      \* the netCDF file main writes: <<>> or the written variables
    slab,      \* detection: the anomaly slice (lat, lon) of the current time
    mask,      \* detection: the cells of the slice at or above thres_low
    label,     \* detection: the label of every cell, 0 outside the mask
    todo,      \* detection: the labels still to be examined
    last,      \* detection: the candidate examined last and its outcome
    result_df, \* detection: the records kept for the slice
    ardf,      \* tracking: the records read from the csv file, in time order
    neighbors, \* tracking: the neighbor edges trackARs found, <<id, id>>
    tracked,   \* tracking: the tracks trackARs returned
    track_list,\* tracking: the tracks after filterTracks
    ii,        \* tracking: index of the save loop
    trackdf,   \* tracking: the table the save loop builds, <<>> if unassigned
    csv,       \* tracking: the rows written to the track file, <<>> if none
    PLOT,      \* tracking: the flag PLOT of trace_ARs.py
    SCHEMATIC, \* tracking: the flag SCHEMATIC of trace_ARs.py
    script,    \* batch: the script whose __main__ runs
    filelist,  \* batch: the input files of __main__, in order
    exists,    \* batch: the output paths that exist on disk
    bad,       \* batch: the input files whose task raises
    filename,  \* batch: the files left after the skip-if-done loop
    chunks,    \* batch: the tasks of pool.map not yet taken by a worker
    worker,    \* batch: for every worker, the files left of its task
    failed,    \* batch: the files whose task has raised
    shapes,    \* detection main: the shapes of ivt, ivt_rec and ivt_ano
    yields,    \* detection main: the slices the detector yields, in order
    tidx,      \* detection main: the number of slices handled in this run
    dfout,     \* detection main: the lines of the record csv on disk
    ncfout,    \* detection main: the variables saved to the label file
    runs       \* detection main: the runs of main started so far

thrVars == <<ivt, ivt_mean, kernel, lm, rec, niter, ivtrec, ivtano, fout>>
detVars == <<slab, mask, label, todo, last, result_df>>
trkVars == <<ardf, neighbors, tracked, track_list, ii, trackdf, csv>>
cfgVars == <<PLOT, SCHEMATIC>>
batVars == <<script, filelist, exists, bad, filename, chunks, worker, failed>>
runVars == <<shapes, yields, tidx, dfout, ncfout, runs>>
vars == <<pc, thrVars, detVars, trkVars, cfgVars, batVars, runVars>>

-----------------------------------------------------------------------------
(* Bounds of the model *)
NT == 2         \* time steps of a field
NLat == 1       \* latitudes of a field
NLon == 4       \* longitudes of a field
MaxVal == 2     \* field values are 0..MaxVal
MaxPeaks == 1   \* cells of an input field that differ from its base value

(* Program constants *)
CubeT == 10     \* kernel[0]>=10 switches to a cube
CubeS == 6      \* kernel[1]>=6 switches to a cube

Vals == 0..MaxVal
Cells == (1..NT) \X (1..NLat) \X (1..NLon)
Cells2D == (1..NLat) \X (1..NLon)
NoField == <<>>

Max(S) == CHOOSE x \in S : \A y \in S : y <= x
Min(S) == CHOOSE x \in S : \A y \in S : x <= y

RECURSIVE SubsetsUpTo(_, _)
SubsetsUpTo(S, k) ==
    IF k = 0 THEN {{}}
    ELSE LET prev == SubsetsUpTo(S, k - 1)
         IN  prev \cup { p \cup {x} : p \in prev, x \in S }

\* fields over the domain D: a base value everywhere but at most k cells
SparseFields(D, k) ==
    UNION { UNION { { [c \in D |-> IF c \in P THEN f[c] ELSE b] : f \in [P -> Vals] }
                    : P \in SubsetsUpTo(D, k) }
            : b \in Vals }

-----------------------------------------------------------------------------
(* compute_ivt-anomaly.py *)

\* filterData_250, lines 127-162: ivtrec = ivt - ivt_mean and
\* ivtano = ivt - ivt_mean, the (lat, lon) mean broadcast over the time axis
filterData_250_rec_is_mean(f, m) ==
    [ ivt |-> f,
      ivtrec |-> [c \in DOMAIN f |-> m[<<c[2], c[3]>>]],
      ivtano |-> [c \in DOMAIN f |-> f[c] - m[<<c[2], c[3]>>]] ]

filterData_250_swapped(f, m) ==
    [ ivt |-> f,
      ivtrec |-> [c \in DOMAIN f |-> f[c] - m[<<c[2], c[3]>>]],
      ivtano |-> [c \in DOMAIN f |-> m[<<c[2], c[3]>>] - f[c]] ]

filterData_250(f, m) ==
    [ ivt |-> f,
      ivtrec |-> [c \in DOMAIN f |-> f[c] - m[<<c[2], c[3]>>]],
      ivtano |-> [c \in DOMAIN f |-> f[c] - m[<<c[2], c[3]>>]] ]

\* main, lines 245-247: the decomposition main calls is filterData_250
MainFilter ==
    /\ pc = "a_start"
    /\ LET r == filterData_250(ivt, ivt_mean)
       IN  /\ ivtrec' = r.ivtrec
           /\ ivtano' = r.ivtano
    /\ pc' = "a_filtered"
    /\ UNCHANGED <<cfgVars, batVars, runVars, ivt, ivt_mean, kernel, lm, rec, niter, fout, detVars, trkVars>>

\* main, lines 249-261: write ivt, ivt_rec and ivt_ano to the output file
MainSave ==
    /\ pc = "a_filtered"
    /\ fout' = [ivt |-> ivt, ivt_rec |-> ivtrec, ivt_ano |-> ivtano]
    /\ pc' = "a_saved"
    /\ UNCHANGED <<cfgVars, batVars, runVars, ivt, ivt_mean, kernel, lm, rec, niter, ivtrec, ivtano, detVars, trkVars>>

\* the detection script is not running
IdleDetect ==
    /\ slab = NoField /\ mask = {} /\ label = NoField
    /\ todo = <<>> /\ last = <<>> /\ result_df = <<>>

\* the tracking script is not running
IdleTrack ==
    /\ ardf = <<>> /\ neighbors = {} /\ tracked = <<>> /\ track_list = <<>>
    /\ ii = 0 /\ trackdf = <<>> /\ csv = <<>>

\* no batch is running
IdleBatch ==
    /\ script = "" /\ filelist = <<>> /\ exists = {} /\ bad = {}
    /\ filename = <<>> /\ chunks = <<>> /\ worker = <<>> /\ failed = {}

\* the main of the detection script is not running
IdleRun ==
    /\ shapes = <<>> /\ yields = <<>> /\ tidx = 0
    /\ dfout = <<>> /\ ncfout = <<>> /\ runs = 0

\* the flags as trace_ARs.py sets them
SourceFlags == PLOT = TRUE /\ SCHEMATIC = FALSE

InitAno ==
    /\ IdleDetect /\ IdleTrack /\ IdleBatch /\ IdleRun /\ SourceFlags
    /\ pc = "a_start"
    /\ ivt \in SparseFields(Cells, 1)
    /\ ivt_mean \in SparseFields(Cells2D, 1)
    /\ kernel = <<>>
    /\ lm = NoField /\ rec = NoField /\ niter = 0
    /\ ivtrec = NoField /\ ivtano = NoField /\ fout = NoField

-----------------------------------------------------------------------------
(* filterData: erosion, reconstruction by dilation, anomaly *)

\* the kernels filterData is applied to: <<t, s>>, ellipsoids and, from
\* t >= CubeT or s >= CubeS on, cubes
Kernels == { <<1, 1>>, <<1, 2>>, <<CubeT, 1>>, <<1, CubeS>> }

\* funcs.get3DEllipse(t, s): the offsets <<dt, dy, dx>> within the half
\* lengths with (dx/s)^2 + (dy/s)^2 + (dt/t)^2 <= 1
InEllipse(k, o) ==
    /\ o[1] \in -k[1]..k[1] /\ o[2] \in -k[2]..k[2] /\ o[3] \in -k[2]..k[2]
    /\ (o[2] * o[2] + o[3] * o[3]) * k[1] * k[1] + o[1] * o[1] * k[2] * k[2]
          <= k[1] * k[1] * k[2] * k[2]

InCube(k, o) ==
    o[1] \in -k[1]..k[1] /\ o[2] \in -k[2]..k[2] /\ o[3] \in -k[2]..k[2]

\* filterData, lines 171-176: the structuring element
InEle(k, o) ==
    IF k[1] >= CubeT \/ k[2] >= CubeS THEN InCube(k, o) ELSE InEllipse(k, o)

Offset(c, d) == <<d[1] - c[1], d[2] - c[2], d[3] - c[3]>>

\* morphology.erosion(ivt.data, selem=ele): the minimum over the cells of
\* the field the structuring element covers, the element truncated at the
\* borders of the field
\* the cells of the field within the half lengths h around the cell c
Box(c, h) ==
    (Max({1, c[1] - h[1]})..Min({NT, c[1] + h[1]}))
        \X (Max({1, c[2] - h[2]})..Min({NLat, c[2] + h[2]}))
        \X (Max({1, c[3] - h[3]})..Min({NLon, c[3] + h[3]}))

Covered(k, c) == { e \in Box(c, <<k[1], k[2], k[2]>>) : InEle(k, Offset(c, e)) }

Erosion(f, k) == [c \in DOMAIN f |-> Min({ f[d] : d \in Covered(k, c) })]

\* the neighbourhood of one dilation sweep of morphology.reconstruction:
\* no selem is passed at line 187, so the cell and the cells next to it
\* along any axis or diagonal
AdjacentCells(c) == Box(c, <<1, 1, 1>>)

\* one sweep of reconstruction by dilation: dilate the marker, clip to the mask
DilateClip(marker, bound) ==
    [c \in DOMAIN bound |->
        LET d == Max({ marker[e] : e \in AdjacentCells(c) })
        IN  IF d <= bound[c] THEN d ELSE bound[c]]

IsFixedPoint(marker, bound) == DilateClip(marker, bound) = marker

\* the sweep as the reconstruction runs it
ReconSweep_cutoff(marker, bound) == marker

ReconSweep(marker, bound) == DilateClip(marker, bound)

InitTHR ==
    /\ IdleDetect /\ IdleTrack /\ IdleBatch /\ IdleRun /\ SourceFlags
    /\ pc = "f_start"
    /\ ivt \in SparseFields(Cells, MaxPeaks)
    /\ ivt_mean = NoField
    /\ kernel \in Kernels
    /\ lm = NoField /\ rec = NoField /\ niter = 0
    /\ ivtrec = NoField /\ ivtano = NoField /\ fout = NoField

\* filterData, line 182: lm = morphology.erosion(ivt.data, selem=ele)
FilterErode ==
    /\ pc = "f_start"
    /\ lm' = Erosion(ivt, kernel)
    /\ rec' = lm'
    /\ pc' = "f_reconstruct"
    /\ UNCHANGED <<cfgVars, batVars, runVars, ivt, ivt_mean, kernel, niter, ivtrec, ivtano, fout, detVars, trkVars>>

\* filterData, line 187: morphology.reconstruction(lm, ivt, method='dilation'),
\* one sweep while the marker still changes
FilterReconStep ==
    /\ pc = "f_reconstruct"
    /\ LET swept == ReconSweep(rec, ivt)
       IN  swept # rec /\ rec' = swept
    /\ niter' = niter + 1
    /\ UNCHANGED <<cfgVars, batVars, runVars, pc, ivt, ivt_mean, kernel, lm, ivtrec, ivtano, fout, detVars, trkVars>>

\* filterData, lines 187-220: the reconstruction returns once a sweep
\* changes nothing; ivtano = ivt - ivtrec
FilterReturn ==
    /\ pc = "f_reconstruct"
    /\ ReconSweep(rec, ivt) = rec
    /\ ivtrec' = rec
    /\ ivtano' = [c \in Cells |-> ivt[c] - rec[c]]
    /\ pc' = "f_returned"
    /\ UNCHANGED <<cfgVars, batVars, runVars, ivt, ivt_mean, kernel, lm, rec, niter, fout, detVars, trkVars>>

NextDecomp ==
    \/ MainFilter
    \/ MainSave
    \/ FilterErode
    \/ FilterReconStep
    \/ FilterReturn

InitDecomp == InitAno \/ InitTHR

SpecDecomp == InitDecomp /\ [][NextDecomp]_vars

-----------------------------------------------------------------------------
(* Claims on the decomposition *)

MeanAt(c) == ivt_mean[<<c[2], c[3]>>]

\* C1 as stated: in the file main writes, ivt_rec <= ivt and
\* ivt_ano = ivt - ivt_rec at every cell.
C1_Original ==
    pc = "a_saved" =>
        \A c \in Cells : /\ fout.ivt_rec[c] <= fout.ivt[c]
                         /\ fout.ivt_ano[c] = fout.ivt[c] - fout.ivt_rec[c]

\* C1 (amended): what main writes comes from filterData_250, where ivt_rec
\* and ivt_ano are the same field ivt - ivt_mean: ivt_rec <= ivt holds for a
\* mean >= 0, and ivt_ano = ivt - ivt_rec holds at a cell exactly when
\* ivt = 2 * ivt_mean there. What filterData returns satisfies ivt_rec <= ivt
\* and ivt_ano = ivt - ivt_rec at every cell.
C1_Decomposition ==
    /\ pc = "a_saved" =>
        \A c \in Cells :
            /\ fout.ivt_rec[c] = fout.ivt[c] - MeanAt(c)
            /\ fout.ivt_ano[c] = fout.ivt_rec[c]
            /\ fout.ivt_rec[c] <= fout.ivt[c]
            /\ (fout.ivt_ano[c] = fout.ivt[c] - fout.ivt_rec[c])
                  <=> (fout.ivt[c] = 2 * MeanAt(c))
    /\ pc = "f_returned" =>
        \A c \in Cells : /\ ivtrec[c] <= ivt[c]
                         /\ ivtano[c] = ivt[c] - ivtrec[c]

\* C1 witness: main has written a file with a cell where the mean is
\* positive and the raw value is not twice the mean
C1_Witness ==
    /\ pc = "a_saved"
    /\ \E c \in Cells : MeanAt(c) > 0 /\ fout.ivt[c] # 2 * MeanAt(c)

\* C2 as stated: the anomaly field main writes is >= 0 at every cell.
C2_Original ==
    pc = "a_saved" => \A c \in Cells : fout.ivt_ano[c] >= 0

\* C2 (amended): the anomaly main writes (filterData_250) is >= 0 at a cell
\* exactly when the raw value there is at least the climatological mean; the
\* anomaly filterData returns is >= 0 at every cell.
C2_AnomalySign ==
    /\ pc = "a_saved" =>
        \A c \in Cells : (fout.ivt_ano[c] >= 0) <=> (fout.ivt[c] >= MeanAt(c))
    /\ pc = "f_returned" => \A c \in Cells : ivtano[c] >= 0

\* C2 witness: a written anomaly field with a negative cell and a positive one
C2_Witness ==
    /\ pc = "a_saved"
    /\ \E c \in Cells : fout.ivt_ano[c] < 0
    /\ \E c \in Cells : fout.ivt_ano[c] > 0

\* C3: the reconstruction by dilation started from the eroded field stops
\* after at most (number of cells) * (number of value steps) sweeps, and
\* what it returns is a fixed point of dilate-and-clip.
C3_ReconstructionConverges ==
    /\ niter <= Cardinality(Cells) * MaxVal
    /\ pc = "f_returned" => IsFixedPoint(ivtrec, ivt)

\* C3 witness: a reconstruction that needed more than one sweep has returned
C3_Witness == pc = "f_returned" /\ niter >= 2 /\ ivtrec # lm

-----------------------------------------------------------------------------
(* detect_ARs.py: the detection of one time slice *)

(* Bounds of the detection model *)
NRows == 2          \* latitudes of a slice
NCols == 4          \* longitudes of a slice
MaxBlobCells == 3   \* cells of a slice at or above the threshold

\* PARAM_DICT, lines 106-147 (the entries the model reads)
PARAM_DICT_not_cyclic ==
    [ thres_low |-> 250, min_area |-> 500000, max_area |-> 18000000,
      min_LW |-> 0, min_lat |-> 0, max_lat |-> 80,
      min_length |-> 1000, min_length_hard |-> 800, zonal_cyclic |-> FALSE ]

PARAM_DICT_hard_above ==
    [ thres_low |-> 250, min_area |-> 500000, max_area |-> 18000000,
      min_LW |-> 0, min_lat |-> 0, max_lat |-> 80,
      min_length |-> 1000, min_length_hard |-> 1200, zonal_cyclic |-> TRUE ]

PARAM_DICT ==
    [ thres_low |-> 250, min_area |-> 500000, max_area |-> 18000000,
      min_LW |-> 0, min_lat |-> 0, max_lat |-> 80,
      min_length |-> 1000, min_length_hard |-> 800, zonal_cyclic |-> TRUE ]

Grid == (1..NRows) \X (1..NCols)

\* position of a cell in row-major order
Index(c) == (c[1] - 1) * NCols + c[2]

\* the anomaly slices: cells at the threshold on a background just below it
Slabs ==
    { [c \in Grid |-> IF c \in P THEN PARAM_DICT.thres_low
                                 ELSE PARAM_DICT.thres_low - 1]
        : P \in SubsetsUpTo(Grid, MaxBlobCells) }

\* the cells next to c along a row or a column; with cyclic the first and the
\* last column are next to each other
Neighbours(c, cyclic) ==
    { d \in Grid :
        \/ d[2] = c[2] /\ (d[1] = c[1] + 1 \/ d[1] = c[1] - 1)
        \/ d[1] = c[1] /\ (d[2] = c[2] + 1 \/ d[2] = c[2] - 1)
        \/ /\ cyclic /\ d[1] = c[1] /\ d # c
           /\ {c[2], d[2]} = {1, NCols} }

\* pairs of cells of the mask next to each other whose labels still differ
Unmerged(m, l, cyclic) ==
    { e \in m \X m : e[2] \in Neighbours(e[1], cyclic) /\ l[e[1]] # l[e[2]] }

\* the geometry AxisExtractor and the area computation measure for a
\* candidate: values on both sides of every threshold of PARAM_DICT
Geoms ==
    { [area |-> PARAM_DICT.min_area, lat |-> PARAM_DICT.max_lat, lw |-> PARAM_DICT.min_LW, length |-> n]
        : n \in { 799, 800, 999, 1000 } }
    \cup
    { [area |-> PARAM_DICT.min_area - 1, lat |-> 40, lw |-> 2, length |-> 1000],
      [area |-> PARAM_DICT.max_area, lat |-> PARAM_DICT.max_lat + 1, lw |-> 2, length |-> 1000] }

\* the area, latitude and length/width filters
PassesGeometry(g) ==
    /\ g.area >= PARAM_DICT.min_area /\ g.area <= PARAM_DICT.max_area
    /\ g.lat >= PARAM_DICT.min_lat /\ g.lat <= PARAM_DICT.max_lat
    /\ g.lw >= PARAM_DICT.min_LW

\* the length tests: shorter than min_length_hard is discarded, shorter than
\* min_length is relaxed
IsDiscarded(g) == g.length < PARAM_DICT.min_length_hard
IsRelaxed(g) == g.length < PARAM_DICT.min_length

\* the decomposition script is not running
IdleDecomp ==
    /\ ivt = NoField /\ ivt_mean = NoField /\ kernel = <<>>
    /\ lm = NoField /\ rec = NoField /\ niter = 0
    /\ ivtrec = NoField /\ ivtano = NoField /\ fout = NoField

InitDetect ==
    /\ IdleDecomp /\ IdleTrack /\ IdleBatch /\ IdleRun /\ SourceFlags
    /\ pc = "d_start"
    /\ slab \in Slabs
    /\ mask = {} /\ label = NoField
    /\ todo = <<>> /\ last = <<>> /\ result_df = <<>>

\* binarize: mask = anomaly >= thres_low; every cell of the mask starts as
\* a component of its own
Binarize ==
    /\ pc = "d_start"
    /\ mask' = { c \in Grid : slab[c] >= PARAM_DICT.thres_low }
    /\ label' = [c \in Grid |-> IF c \in mask' THEN Index(c) ELSE 0]
    /\ pc' = "d_label"
    /\ UNCHANGED <<cfgVars, batVars, runVars, thrVars, trkVars, slab, todo, last, result_df>>

\* the first of the pairs in row-major order of their cells
FirstPair(pairs) ==
    CHOOSE x \in pairs :
        \A y \in pairs :
            \/ Index(x[1]) < Index(y[1])
            \/ Index(x[1]) = Index(y[1]) /\ Index(x[2]) <= Index(y[2])

\* the labels after the components of the two cells of e are united, the
\* smaller label kept
Union(l, e) ==
    [c \in Grid |-> IF l[c] = Max({l[e[1]], l[e[2]]})
                    THEN Min({l[e[1]], l[e[2]]}) ELSE l[c]]

\* one union of the labelling: the first pair of neighbouring cells with
\* different labels is merged
LabelStep ==
    /\ pc = "d_label"
    /\ Unmerged(mask, label, PARAM_DICT.zonal_cyclic) # {}
    /\ label' = Union(label, FirstPair(Unmerged(mask, label, PARAM_DICT.zonal_cyclic)))
    /\ UNCHANGED <<cfgVars, batVars, runVars, pc, thrVars, trkVars, slab, mask, todo, last, result_df>>

\* the ascending sequence of the numbers of a finite set
RECURSIVE Sorted(_)
Sorted(S) == IF S = {} THEN <<>> ELSE <<Min(S)>> \o Sorted(S \ {Min(S)})

\* the labelling is complete: the components are numbered 1..n in the order
\* of their first cell and queued for the filters
LabelDone ==
    /\ pc = "d_label"
    /\ Unmerged(mask, label, PARAM_DICT.zonal_cyclic) = {}
    /\ LET used == { label[c] : c \in mask }
           rank(v) == Cardinality({ u \in used : u <= v })
       IN  /\ label' = [c \in Grid |-> IF c \in mask THEN rank(label[c]) ELSE 0]
           /\ todo' = Sorted({ rank(v) : v \in used })
    /\ pc' = "d_filter"
    /\ UNCHANGED <<cfgVars, batVars, runVars, thrVars, trkVars, slab, mask, last, result_df>>

\* the next component is measured and filtered: area, latitude, length/width,
\* then the length classes
Examine ==
    /\ pc = "d_filter"
    /\ todo # <<>>
    /\ \E g \in Geoms :
        LET kept == PassesGeometry(g) /\ ~IsDiscarded(g)
        IN  /\ last' = [id |-> Head(todo), geom |-> g, kept |-> kept,
                        relaxed |-> IsRelaxed(g)]
            /\ result_df' =
                 IF kept
                 THEN Append(result_df, [id |-> Head(todo), length |-> g.length,
                                         area |-> g.area, relaxed |-> IsRelaxed(g)])
                 ELSE result_df
    /\ todo' = Tail(todo)
    /\ UNCHANGED <<cfgVars, batVars, runVars, pc, thrVars, trkVars, slab, mask, label>>

\* every component was examined: the slice's labels and records are yielded
YieldSlice ==
    /\ pc = "d_filter"
    /\ todo = <<>>
    /\ pc' = "d_yielded"
    /\ UNCHANGED <<cfgVars, batVars, runVars, thrVars, detVars, trkVars>>

NextDetect ==
    \/ Binarize
    \/ LabelStep
    \/ LabelDone
    \/ Examine
    \/ YieldSlice

SpecDetect == InitDetect /\ [][NextDetect]_vars

-----------------------------------------------------------------------------
(* Claims on the detection *)

\* the record the slice's table holds for the candidate examined last
LastRecord ==
    IF result_df # <<>> /\ result_df[Len(result_df)].id = last.id
    THEN {result_df[Len(result_df)]} ELSE {}

\* C4: a candidate that passed the area, latitude and length/width filters is
\* in exactly one of three length classes, and the class decides its fate:
\* length >= min_length is kept with relaxed = false, min_length_hard <=
\* length < min_length is kept with relaxed = true, length < min_length_hard
\* is discarded.
C4_LengthClasses ==
    (last # <<>> /\ PassesGeometry(last.geom)) =>
        LET len == last.geom.length
            full == len >= PARAM_DICT.min_length
            relaxed == PARAM_DICT.min_length_hard <= len /\ len < PARAM_DICT.min_length
            short == len < PARAM_DICT.min_length_hard
        IN  /\ full => \E r \in LastRecord : ~r.relaxed /\ r.length = len
            /\ relaxed => \E r \in LastRecord : r.relaxed /\ r.length = len
            /\ short => LastRecord = {}
            /\ Cardinality({ b \in {<<1, full>>, <<2, relaxed>>, <<3, short>>} : b[2] }) = 1

\* C4 witness: a candidate of exactly min_length_hard was kept as relaxed
C4_Witness ==
    /\ last # <<>> /\ PassesGeometry(last.geom)
    /\ last.geom.length = PARAM_DICT.min_length_hard
    /\ \E r \in LastRecord : r.relaxed

\* the cells of m connected to the cells of S, the first and the last column
\* next to each other if cyclic
RECURSIVE Grow(_, _, _)
Grow(S, m, cyclic) ==
    LET n == S \cup { d \in m : \E c \in S : d \in Neighbours(c, cyclic) }
    IN  IF n = S THEN S ELSE Grow(n, m, cyclic)

Labelled == pc \in {"d_filter", "d_yielded"}

\* C5: once a slice is labelled, two cells of the mask have the same label
\* exactly when a path of neighbouring mask cells joins them, the first and
\* the last longitude column counting as neighbours; so there are as many
\* labels as such components and a blob across the seam has one label.
C5_SeamLabelling ==
    Labelled =>
        /\ \A a \in mask, b \in mask :
              (label[a] = label[b]) <=> (b \in Grow({a}, mask, TRUE))
        /\ Cardinality({ label[c] : c \in mask })
              = Cardinality({ Grow({c}, mask, TRUE) : c \in mask })
        /\ \A c \in Grid \ mask : label[c] = 0

\* C5 witness: a labelled slice with a blob that only the seam holds together
C5_Witness ==
    /\ Labelled
    /\ \E r \in 1..NRows :
          /\ <<r, 1>> \in mask /\ <<r, NCols>> \in mask
          /\ <<r, NCols>> \notin Grow({<<r, 1>>}, mask, FALSE)
          /\ label[<<r, 1>>] = label[<<r, NCols>>]
          /\ \E c \in mask : label[c] # label[<<r, 1>>]

-----------------------------------------------------------------------------
(* trace_ARs.py: linkage of the records into tracks, filter, track file *)

(* Bounds of the tracking model *)
MaxCands == 4       \* records of an input file given to trackARs
MaxTrackLen == 5    \* records of a track given to filterTracks
MaxTracks == 2      \* tracks given to filterTracks

(* Program constants *)
TIME_GAP_ALLOW == 6
MAX_DIST_ALLOW == 1200
MIN_DURATION == 24
MIN_NONRELAX == 2
FileYear == 2011
FileMonth == 8

TRACK_SCHEME == "simple"

\* the member cells of a record, as positions in km along a great circle
Shapes == { {0}, {1200}, {1, 1201} }

\* hours between a record and the record before it in the file
TimeSteps == { 0, TIME_GAP_ALLOW \div 2, TIME_GAP_ALLOW, TIME_GAP_ALLOW + 1 }

\* the record tables readCSVRecord returns: ids 1..n in time order
RECURSIVE Streams(_)
Streams(n) ==
    IF n = 1
    THEN { << [id |-> 1, time |-> 0, shape |-> sh, relaxed |-> FALSE] >> : sh \in Shapes }
    ELSE { Append(st, [id |-> n, time |-> st[n - 1].time + dt, shape |-> sh,
                       relaxed |-> FALSE])
            : st \in Streams(n - 1), dt \in TimeSteps, sh \in Shapes }

Abs(x) == IF x < 0 THEN -x ELSE x

\* directed Hausdorff distance: the farthest a point of A is from B
Directed(A, B) == Max({ Min({ Abs(a - b) : b \in B }) : a \in A })

\* Hausdorff distance: the larger of the two directed distances
Hausdorff(A, B) == Max({ Directed(A, B), Directed(B, A) })

\* the neighbor edges of the link graph: an earlier and a later record no
\* more than time_gap_allow apart whose distance is at most max_dist_allow
NeighborEdges(recs, time_gap_allow, max_dist_allow) ==
    { e \in (1..Len(recs)) \X (1..Len(recs)) :
        /\ recs[e[1]].time < recs[e[2]].time
        /\ recs[e[2]].time - recs[e[1]].time <= time_gap_allow
        /\ Hausdorff(recs[e[1]].shape, recs[e[2]].shape) <= max_dist_allow }

EdgeDist(recs, e) == Hausdorff(recs[e[1]].shape, recs[e[2]].shape)

\* e is a better continuation than f: smaller distance, then smaller ids
Better(recs, e, f) ==
    \/ EdgeDist(recs, e) < EdgeDist(recs, f)
    \/ /\ EdgeDist(recs, e) = EdgeDist(recs, f)
       /\ (e[1] < f[1] \/ (e[1] = f[1] /\ e[2] <= f[2]))

BestEdge(recs, es) == CHOOSE e \in es : \A f \in es : Better(recs, e, f)

\* the edges still free: neither end is taken by a chosen edge
FreeEdges(edges, chosen) ==
    { e \in edges : \A c \in chosen : c[1] # e[1] /\ c[2] # e[2] }

\* simple scheme: the best free edge continues a chain, until none is free
RECURSIVE SimpleLinks(_, _, _)
SimpleLinks(recs, edges, chosen) ==
    IF FreeEdges(edges, chosen) = {} THEN chosen
    ELSE SimpleLinks(recs, edges,
                     chosen \cup {BestEdge(recs, FreeEdges(edges, chosen))})

\* the chain of records that starts at the record h
RECURSIVE Chain(_, _, _)
Chain(recs, links, h) ==
    LET next == { e[2] : e \in { l \in links : l[1] = h } }
    IN  IF next = {} THEN << recs[h] >>
        ELSE << recs[h] >> \o Chain(recs, links, CHOOSE n \in next : TRUE)

\* the chains in the order of their first record
RECURSIVE ChainsFrom(_, _, _)
ChainsFrom(recs, links, heads) ==
    IF heads = {} THEN <<>>
    ELSE << Chain(recs, links, Min(heads)) >>
            \o ChainsFrom(recs, links, heads \ {Min(heads)})

\* trackARs(record, time_gap_allow, max_dist_allow, track_scheme='simple')
trackARs(recs, time_gap_allow, max_dist_allow, track_scheme) ==
    LET edges == NeighborEdges(recs, time_gap_allow, max_dist_allow)
        links == IF track_scheme = "simple" THEN SimpleLinks(recs, edges, {}) ELSE {}
        heads == { h \in 1..Len(recs) : \A l \in links : l[2] # h }
    IN  [ neighbors |-> edges, tracks |-> ChainsFrom(recs, links, heads) ]

Duration(t) == t[Len(t)].time - t[1].time
NonRelaxed(t) == Cardinality({ j \in 1..Len(t) : ~t[j].relaxed })

\* filterTracks(track_list, min_duration, min_nonrelax)
RECURSIVE filterTracks(_, _, _)
filterTracks(tracks, min_duration, min_nonrelax) ==
    IF tracks = <<>> THEN <<>>
    ELSE LET t == Head(tracks)
             rest == filterTracks(Tail(tracks), min_duration, min_nonrelax)
         IN  IF Duration(t) < min_duration THEN rest
             ELSE IF NonRelaxed(t) < min_nonrelax THEN rest
             ELSE << t >> \o rest

\* the decimal digits of n, as '%d' prints them
RECURSIVE DigitsOf(_)
DigitsOf(n) == IF n < 10 THEN << n >> ELSE Append(DigitsOf(n \div 10), n % 10)

\* '%d%d' %(year, number)
FmtTrackId(year, number) == DigitsOf(year) \o DigitsOf(number)

\* the timestamp of a record: hours counted from the first hour of the file
Timestamp(t) ==
    [ year |-> FileYear, month |-> FileMonth, day |-> 1 + t \div 24, hour |-> t % 24 ]

\* the tracks filterTracks can be given: the n-th track starts n - 1 time
\* steps after the first; its records are one time step apart, the last one
\* possibly an hour early; the first k records are not relaxed
TracksAt(n) ==
    { [j \in 1..len |->
          [ id |-> (n - 1) * MaxTrackLen + j,
            time |-> (n - 1 + j - 1) * TIME_GAP_ALLOW - (IF j = len /\ j > 1 THEN early ELSE 0),
            shape |-> {0},
            relaxed |-> j > k ] ]
        : len \in {1, MaxTrackLen - 1, MaxTrackLen}, early \in {0, 1},
          k \in {MIN_NONRELAX - 1, MIN_NONRELAX, MaxTrackLen} }

RECURSIVE TrackLists(_)
TrackLists(n) ==
    IF n = 0 THEN { <<>> }
    ELSE TrackLists(n - 1)
            \cup { Append(l, t) : l \in { x \in TrackLists(n - 1) : Len(x) = n - 1 },
                                  t \in TracksAt(n) }

\* main after line 82: the records are read
InitRecords ==
    /\ IdleDecomp /\ IdleDetect /\ IdleBatch /\ IdleRun /\ SourceFlags
    /\ pc = "t_read"
    /\ ardf \in UNION { Streams(n) : n \in 1..MaxCands }
    /\ neighbors = {} /\ tracked = <<>> /\ track_list = <<>>
    /\ ii = 0 /\ trackdf = <<>> /\ csv = <<>>

\* main after line 82 on a file of one record, for any setting of the flags
InitFlags ==
    /\ IdleDecomp /\ IdleDetect /\ IdleBatch /\ IdleRun
    /\ PLOT \in BOOLEAN /\ SCHEMATIC \in BOOLEAN
    /\ pc = "t_read"
    /\ ardf \in Streams(1)
    /\ neighbors = {} /\ tracked = <<>> /\ track_list = <<>>
    /\ ii = 0 /\ trackdf = <<>> /\ csv = <<>>

\* main after line 94, for the tracks of longer files
InitTracked ==
    /\ IdleDecomp /\ IdleDetect /\ IdleBatch /\ IdleRun /\ SourceFlags
    /\ pc = "t_tracked"
    /\ ardf = <<>> /\ neighbors = {}
    /\ tracked \in TrackLists(MaxTracks)
    /\ track_list = tracked
    /\ ii = 0 /\ trackdf = <<>> /\ csv = <<>>

\* main, lines 93-94
MainTrack_no_gap ==
    /\ pc = "t_read"
    /\ PLOT \/ SCHEMATIC
    /\ LET r == trackARs(ardf, MAX_DIST_ALLOW, MAX_DIST_ALLOW, TRACK_SCHEME)
       IN  /\ neighbors' = r.neighbors
           /\ tracked' = r.tracks
           /\ track_list' = r.tracks
    /\ pc' = "t_tracked"
    /\ UNCHANGED <<cfgVars, batVars, runVars, thrVars, detVars, ardf, ii, trackdf, csv>>

MainTrack_swapped ==
    /\ pc = "t_read"
    /\ PLOT \/ SCHEMATIC
    /\ LET r == trackARs(ardf, MAX_DIST_ALLOW, TIME_GAP_ALLOW, TRACK_SCHEME)
       IN  /\ neighbors' = r.neighbors
           /\ tracked' = r.tracks
           /\ track_list' = r.tracks
    /\ pc' = "t_tracked"
    /\ UNCHANGED <<cfgVars, batVars, runVars, thrVars, detVars, ardf, ii, trackdf, csv>>

MainTrack ==
    /\ pc = "t_read"
    /\ PLOT \/ SCHEMATIC
    /\ LET r == trackARs(ardf, TIME_GAP_ALLOW, MAX_DIST_ALLOW, TRACK_SCHEME)
       IN  /\ neighbors' = r.neighbors
           /\ tracked' = r.tracks
           /\ track_list' = r.tracks
    /\ pc' = "t_tracked"
    /\ UNCHANGED <<cfgVars, batVars, runVars, thrVars, detVars, ardf, ii, trackdf, csv>>

\* main, lines 87-94 with PLOT and SCHEMATIC both false: plot_dir is not
\* assigned, and the call of trackARs that names it raises
MainTrackUnbound ==
    /\ pc = "t_read"
    /\ ~(PLOT \/ SCHEMATIC)
    /\ pc' = "t_unbound"
    /\ UNCHANGED <<cfgVars, batVars, runVars, thrVars, detVars, trkVars>>

\* main, lines 96-97
MainFilterTracks_swapped ==
    /\ pc = "t_tracked"
    /\ track_list' = filterTracks(track_list, MIN_NONRELAX, MIN_DURATION)
    /\ ii' = 0
    /\ pc' = "t_filtered"
    /\ UNCHANGED <<cfgVars, batVars, runVars, thrVars, detVars, ardf, neighbors, tracked, trackdf, csv>>

MainFilterTracks ==
    /\ pc = "t_tracked"
    /\ track_list' = filterTracks(track_list, MIN_DURATION, MIN_NONRELAX)
    /\ ii' = 0
    /\ pc' = "t_filtered"
    /\ UNCHANGED <<cfgVars, batVars, runVars, thrVars, detVars, ardf, neighbors, tracked, trackdf, csv>>

\* the rows of the track tii with the columns the save loop adds
WithTrackId(tii, trackidii) ==
    [j \in 1..Len(tii) |->
        [ id |-> tii[j].id, time |-> tii[j].time, shape |-> tii[j].shape,
          relaxed |-> tii[j].relaxed, trackid |-> trackidii,
          year |-> Timestamp(tii[j].time).year, mon |-> Timestamp(tii[j].time).month,
          day |-> Timestamp(tii[j].time).day, hour |-> Timestamp(tii[j].time).hour ]]

\* main, lines 103-131: one pass of the save loop
SaveTrack_prepend ==
    /\ pc = "t_filtered"
    /\ ii < Len(track_list)
    /\ LET tii == track_list[ii + 1]
           trackidii == FmtTrackId(Timestamp(tii[1].time).year, ii + 1)
           data == WithTrackId(tii, trackidii)
       IN  /\ track_list' = [track_list EXCEPT ![ii + 1] = data]
           /\ trackdf' = IF ii = 0 THEN data ELSE data \o trackdf
    /\ ii' = ii + 1
    /\ UNCHANGED <<cfgVars, batVars, runVars, pc, thrVars, detVars, ardf, neighbors, tracked, csv>>

SaveTrack ==
    /\ pc = "t_filtered"
    /\ ii < Len(track_list)
    /\ LET tii == track_list[ii + 1]
           trackidii == FmtTrackId(Timestamp(tii[1].time).year, ii + 1)
           data == WithTrackId(tii, trackidii)
       IN  /\ track_list' = [track_list EXCEPT ![ii + 1] = data]
           /\ trackdf' = IF ii = 0 THEN data ELSE trackdf \o data
    /\ ii' = ii + 1
    /\ UNCHANGED <<cfgVars, batVars, runVars, pc, thrVars, detVars, ardf, neighbors, tracked, csv>>

\* main, lines 133-140: trackdf.to_csv(abpath_out, index=False)
WriteCsv ==
    /\ pc = "t_filtered"
    /\ ii = Len(track_list)
    /\ trackdf # <<>>
    /\ csv' = trackdf
    /\ pc' = "t_saved"
    /\ UNCHANGED <<cfgVars, batVars, runVars, thrVars, detVars, ardf, neighbors, tracked, track_list, ii, trackdf>>

\* main, line 140 with no track left: trackdf was never assigned, the
\* reference raises NameError and nothing is written
WriteCsvNameError ==
    /\ pc = "t_filtered"
    /\ ii = Len(track_list)
    /\ trackdf = <<>>
    /\ pc' = "t_nameerror"
    /\ UNCHANGED <<cfgVars, batVars, runVars, thrVars, detVars, trkVars>>

NextTrack ==
    \/ MainTrack
    \/ MainTrackUnbound
    \/ MainFilterTracks
    \/ SaveTrack
    \/ WriteCsv
    \/ WriteCsvNameError

InitTrack == InitRecords \/ InitFlags \/ InitTracked

SpecTrack == InitTrack /\ [][NextTrack]_vars

-----------------------------------------------------------------------------
(* Claims on the tracking *)

Linked == pc \notin { "t_read", "t_unbound" } /\ ardf # <<>>

\* every point of A has a point of B within d
Within(A, B, d) == \A a \in A : \E b \in B : Abs(a - b) <= d

\* the pairs the link graph is to join: an earlier and a later record at most
\* TIME_GAP_ALLOW apart and at Hausdorff distance at most MAX_DIST_ALLOW
Expected(a, b) ==
    /\ ardf[a].time < ardf[b].time
    /\ ardf[b].time - ardf[a].time <= TIME_GAP_ALLOW
    /\ Within(ardf[a].shape, ardf[b].shape, MAX_DIST_ALLOW)
    /\ Within(ardf[b].shape, ardf[a].shape, MAX_DIST_ALLOW)

\* C6: an earlier and a later record are joined by a neighbor edge exactly
\* when they are at most time_gap_allow apart in time and at Hausdorff
\* distance at most max_dist_allow: distance max_dist_allow is linked, any
\* larger distance is not.
C6_NeighborEdges ==
    Linked =>
        \A a \in 1..Len(ardf), b \in 1..Len(ardf) :
            (<<a, b>> \in neighbors) <=> Expected(a, b)

\* C6 witness: a pair at distance exactly max_dist_allow is linked, a pair
\* just beyond is not, and a pair just beyond the time gap is not
C6_Witness ==
    /\ Linked
    /\ \E e \in neighbors : EdgeDist(ardf, e) = MAX_DIST_ALLOW
    /\ \E a \in 1..Len(ardf), b \in 1..Len(ardf) :
          /\ ardf[a].time < ardf[b].time
          /\ ardf[b].time - ardf[a].time <= TIME_GAP_ALLOW
          /\ EdgeDist(ardf, <<a, b>>) = MAX_DIST_ALLOW + 1
          /\ <<a, b>> \notin neighbors
    /\ \E a \in 1..Len(ardf), b \in 1..Len(ardf) :
          /\ ardf[b].time - ardf[a].time = TIME_GAP_ALLOW + 1
          /\ EdgeDist(ardf, <<a, b>>) = 0
          /\ <<a, b>> \notin neighbors

JustTracked == pc = "t_tracked" /\ ardf # <<>>

\* the links of the tracks: a member and the member after it
TrackLinks ==
    { <<tracked[n][j].id, tracked[n][j + 1].id>>
        : <<n, j>> \in { x \in (1..Len(tracked)) \X (1..MaxCands) : x[2] < Len(tracked[x[1]]) } }

ExpectedEdges == { e \in (1..Len(ardf)) \X (1..Len(ardf)) : Expected(e[1], e[2]) }

\* the tracks are chains of the link graph that partition the records
ChainsPartition ==
    /\ \A a \in 1..Len(ardf) :
          Cardinality({ x \in (1..Len(tracked)) \X (1..Len(ardf)) :
                          x[2] <= Len(tracked[x[1]]) /\ tracked[x[1]][x[2]] = ardf[a] }) = 1
    /\ \A n \in 1..Len(tracked) :
          /\ Len(tracked[n]) >= 1
          /\ \A j \in 1..(Len(tracked[n]) - 1) :
                /\ tracked[n][j].time < tracked[n][j + 1].time
                /\ <<tracked[n][j].id, tracked[n][j + 1].id>> \in ExpectedEdges
    /\ \A l \in TrackLinks, k \in TrackLinks :
          (l[1] = k[1] \/ l[2] = k[2]) => l = k

Filtered == pc = "t_filtered" /\ ii = 0

KeepTrack(t) ==
    /\ t[Len(t)].time - t[1].time >= MIN_DURATION
    /\ Cardinality({ j \in 1..Len(t) : t[j].relaxed = FALSE }) >= MIN_NONRELAX

\* C9: the filter keeps a track exactly when its last record is at least
\* min_duration hours after its first and at least min_nonrelax of its
\* records are not relaxed; the kept tracks are unchanged and in their
\* order.
C9_TrackFilter ==
    Filtered =>
        /\ \A n \in 1..Len(tracked) :
              KeepTrack(tracked[n]) <=> (\E m \in 1..Len(track_list) : track_list[m] = tracked[n])
        /\ \A m \in 1..Len(track_list) : \E n \in 1..Len(tracked) : track_list[m] = tracked[n]
        /\ \A m \in 1..Len(track_list), k \in 1..Len(track_list) :
              m < k => track_list[m][1].id < track_list[k][1].id

\* C9 witness: a track of exactly min_duration is kept and one an hour
\* shorter, with enough records that are not relaxed, is dropped
C9_Witness ==
    /\ Filtered
    /\ \E m \in 1..Len(track_list) : Duration(track_list[m]) = MIN_DURATION
    /\ \E n \in 1..Len(tracked) :
          /\ Duration(tracked[n]) = MIN_DURATION - 1
          /\ NonRelaxed(tracked[n]) >= MIN_NONRELAX
          /\ \A m \in 1..Len(track_list) : track_list[m] # tracked[n]

\* the position in track_list of the track that holds the record of a row
TrackOf(row) ==
    CHOOSE m \in 1..Len(track_list) :
        \E j \in 1..Len(track_list[m]) : track_list[m][j].id = row.id

RECURSIVE TotalLen(_)
TotalLen(tracks) == IF tracks = <<>> THEN 0 ELSE Len(Head(tracks)) + TotalLen(Tail(tracks))

\* C10: in the written track file the rows of a track are contiguous and in
\* time order, the tracks follow each other in the order the filter returned
\* them, which is the order of their start times, every record of every kept
\* track has one row, and the rows of a track carry one track id that no
\* other track has.
C10_TrackFileOrder ==
    pc = "t_saved" =>
        /\ Len(csv) = TotalLen(track_list)
        /\ \A i \in 1..Len(csv) :
              \E m \in 1..Len(track_list) : \E j \in 1..Len(track_list[m]) :
                  track_list[m][j].id = csv[i].id
        /\ \A i \in 1..Len(csv), k \in 1..Len(csv) :
              /\ (TrackOf(csv[i]) = TrackOf(csv[k])) <=> (csv[i].trackid = csv[k].trackid)
              /\ i < k => TrackOf(csv[i]) <= TrackOf(csv[k])
              /\ (i < k /\ TrackOf(csv[i]) = TrackOf(csv[k])) => csv[i].time < csv[k].time
        /\ \A m \in 1..Len(track_list), k \in 1..Len(track_list) :
              m < k => track_list[m][1].time <= track_list[k][1].time

\* C10 witness: a track file with two tracks
C10_Witness ==
    /\ pc = "t_saved"
    /\ Len(track_list) >= 2
    /\ \E i \in 1..Len(csv) : csv[i].trackid # csv[1].trackid

-----------------------------------------------------------------------------
(* The batches of __main__: the skip-if-done loop and pool.map *)

PoolProcesses == 2   \* worker processes of the pool (2 and 27 in the scripts)
MaxFiles == 9        \* input files of a batch
MaxBad == 1          \* input files of a batch whose task raises

\* file names are sequences of characters
DigitChar == <<"0", "1", "2", "3", "4", "5", "6", "7", "8", "9">>
Chars(n) == [ i \in 1..Len(DigitsOf(n)) |-> DigitChar[DigitsOf(n)[i] + 1] ]

\* s[a:b] of Python for a string of length n: a negative index counts from
\* the end, and both ends are clipped to the string
PyIndex(n, i) == IF i < 0 THEN Max({0, n + i}) ELSE Min({i, n})
Slice(s, a, b) ==
    LET lo == PyIndex(Len(s), a)
        hi == PyIndex(Len(s), b)
    IN  IF lo >= hi THEN <<>> ELSE SubSeq(s, lo + 1, hi)
SliceFrom(s, a) == Slice(s, a, Len(s))

\* the last position of the character c in s, 0 if there is none
LastIndexOf(s, c) == Max({0} \cup { i \in 1..Len(s) : s[i] = c })

\* os.path.split(p)[1]
Basename(p) == SubSeq(p, LastIndexOf(p, "/") + 1, Len(p))

\* os.path.splitext(f)[0]: a leading dot starts no extension
SplitextRoot(f) ==
    IF LastIndexOf(f, ".") > 1 THEN SubSeq(f, 1, LastIndexOf(f, ".") - 1) ELSE f

\* os.path.join(d, f) for a directory d that ends with a slash
PathJoin(d, f) == IF f # <<>> /\ f[1] = "/" THEN f ELSE d \o f

Scripts == { "compute_ivt-anomaly", "trace_ARs" }

OUTPUTDIR(s) ==
    IF s = "trace_ARs" THEN <<"/", "t", "r", "a", "c", "k", "s", "/">>
    ELSE <<"/", "i", "v", "t", "2", "5", "0", "_", "s", "u", "m", "m", "e", "r", "_", "m", "o", "n", "/">>

AnoSuffix == <<"-", "a", "n", "o", "-", "2", "5", "0", ".", "n", "c">>
TracksPrefix == <<"a", "r", "_", "t", "r", "a", "c", "k", "s", "_">>
CsvExt == <<".", "c", "s", "v">>
NcExt == <<".", "n", "c">>

\* compute_ivt-anomaly.py: the two files of IVT_FILE, and a file with a
\* shorter and one with a longer name
IvtDir == <<"/", "i", "v", "t", "_", "s", "u", "m", "m", "e", "r", "_", "m", "o", "n", "/">>
IVT_FILE ==
    << IvtDir \o <<"e", "r", "a", "5", "_", "i", "v", "t", "_", "2", "0", "1", "1", "0", "8", ".", "n", "c">>,
       IvtDir \o <<"e", "r", "a", "5", "_", "i", "v", "t", "_", "2", "0", "1", "5", "0", "8", ".", "n", "c">>,
       IvtDir \o <<"e", "r", "a", "5", "_", "i", "v", "t", "_", "2", "0", "1", "1", ".", "n", "c">>,
       IvtDir \o <<"e", "r", "a", "5", "_", "i", "v", "t", "_", "2", "0", "1", "1", "0", "8", "0", "1", ".", "n", "c">> >>

\* trace_ARs.py: the n-th file that matches RECORD_FILE_IN_NAME
RecordDir == <<"/", "a", "r", "i", "n", "f", "o", "_", "2", "5", "0", "/">>
RecordFile(n) ==
    RecordDir \o <<"a", "r", "_", "r", "e", "c", "o", "r", "d", "s", "_", "2", "0", "1", "1">> \o Chars(n) \o <<"0", "0", ".", "c", "s", "v">>

\* the output path the skip-if-done loop of __main__ tests
CheckPath_keeps_ext(s, file) ==
    IF s = "trace_ARs"
    THEN PathJoin(OUTPUTDIR(s), TracksPrefix \o SliceFrom(file, -18))
    ELSE PathJoin(OUTPUTDIR(s), SliceFrom(file, -18) \o AnoSuffix)

CheckPath(s, file) ==
    IF s = "trace_ARs"
    THEN PathJoin(OUTPUTDIR(s), TracksPrefix \o SliceFrom(file, -18))
    ELSE PathJoin(OUTPUTDIR(s), Slice(file, -18, -3) \o AnoSuffix)

\* the output path main writes
MainPath(s, file) ==
    IF s = "trace_ARs"
    THEN PathJoin(OUTPUTDIR(s), TracksPrefix \o Slice(file, -18, -4) \o CsvExt)
    ELSE PathJoin(OUTPUTDIR(s), SplitextRoot(Basename(file)) \o AnoSuffix)

Range(s) == { s[i] : i \in 1..Len(s) }

\* the sublists of a list, in the order of the list
RECURSIVE Sublists(_)
Sublists(s) ==
    IF s = <<>> THEN { <<>> }
    ELSE LET rest == Sublists(Tail(s))
         IN  rest \cup { << Head(s) >> \o r : r \in rest }

\* the file lists __main__ can start from
FileLists(s) ==
    IF s = "trace_ARs"
    THEN { [ i \in 1..n |-> RecordFile(i) ] : n \in 0..MaxFiles }
    ELSE Sublists(IVT_FILE)

RECURSIVE SkipDone(_, _, _)
SkipDone(s, files, done) ==
    IF files = <<>> THEN <<>>
    ELSE IF CheckPath(s, Head(files)) \in done
         THEN SkipDone(s, Tail(files), done)
         ELSE << Head(files) >> \o SkipDone(s, Tail(files), done)

\* the chunk size Pool.map chooses for n items and p processes
Chunksize(n, p) ==
    IF n % (4 * p) # 0 THEN n \div (4 * p) + 1 ELSE n \div (4 * p)

\* the tasks of Pool.map: the items in runs of c
RECURSIVE Chunked(_, _)
Chunked(items, c) ==
    IF items = <<>> THEN <<>>
    ELSE IF Len(items) <= c THEN << items >>
    ELSE << SubSeq(items, 1, c) >> \o Chunked(SubSeq(items, c + 1, Len(items)), c)

\* an earlier run has written the outputs of the first files of the list
InitBatch ==
    /\ IdleDecomp /\ IdleDetect /\ IdleTrack /\ IdleRun /\ SourceFlags
    /\ pc = "b_start"
    /\ script \in Scripts
    /\ filelist \in FileLists(script)
    /\ exists \in { { MainPath(script, filelist[i]) : i \in 1..k } : k \in 0..Len(filelist) }
    /\ bad \in SubsetsUpTo(Range(filelist), MaxBad)
    /\ filename = <<>> /\ chunks = <<>> /\ worker = <<>> /\ failed = {}

\* __main__: the loop that leaves out the files whose output exists
SkipLoop ==
    /\ pc = "b_start"
    /\ filename' = SkipDone(script, filelist, exists)
    /\ pc' = "b_listed"
    /\ UNCHANGED <<thrVars, detVars, trkVars, cfgVars, runVars,
                   script, filelist, exists, bad, chunks, worker, failed>>

\* pool.map(main, filename): the files are cut into tasks
PoolMap ==
    /\ pc = "b_listed"
    /\ chunks' = Chunked(filename, Chunksize(Len(filename), PoolProcesses))
    /\ worker' = [ w \in 1..PoolProcesses |-> <<>> ]
    /\ pc' = "b_mapping"
    /\ UNCHANGED <<thrVars, detVars, trkVars, cfgVars, runVars,
                   script, filelist, exists, bad, filename, failed>>

\* a free worker takes the next task
TakeTask(w) ==
    /\ pc = "b_mapping"
    /\ worker[w] = <<>>
    /\ chunks # <<>>
    /\ worker' = [worker EXCEPT ![w] = Head(chunks)]
    /\ chunks' = Tail(chunks)
    /\ UNCHANGED <<pc, thrVars, detVars, trkVars, cfgVars, runVars,
                   script, filelist, exists, bad, filename, failed>>

\* a worker calls main on the next file of its task: main writes its output,
\* or raises, which ends the task
RunMain(w) ==
    /\ pc = "b_mapping"
    /\ worker[w] # <<>>
    /\ IF Head(worker[w]) \in bad
       THEN /\ failed' = failed \cup { Head(worker[w]) }
            /\ worker' = [worker EXCEPT ![w] = <<>>]
            /\ UNCHANGED exists
       ELSE /\ exists' = exists \cup { MainPath(script, Head(worker[w])) }
            /\ worker' = [worker EXCEPT ![w] = Tail(worker[w])]
            /\ UNCHANGED failed
    /\ UNCHANGED <<pc, thrVars, detVars, trkVars, cfgVars, runVars,
                   script, filelist, bad, filename, chunks>>

\* pool.map returns when every task has ended, and raises if one raised
PoolReturn ==
    /\ pc = "b_mapping"
    /\ chunks = <<>>
    /\ \A w \in 1..PoolProcesses : worker[w] = <<>>
    /\ pc' = IF failed = {} THEN "b_joined" ELSE "b_raised"
    /\ UNCHANGED <<thrVars, detVars, trkVars, cfgVars, runVars, batVars>>

NextBatch ==
    \/ SkipLoop
    \/ PoolMap
    \/ \E w \in 1..PoolProcesses : TakeTask(w)
    \/ \E w \in 1..PoolProcesses : RunMain(w)
    \/ PoolReturn

SpecBatch == InitBatch /\ [][NextBatch]_vars

-----------------------------------------------------------------------------
(* Claims on the batches *)

BatchOver == pc \in { "b_joined", "b_raised" }

\* C11 as stated: when the batch is over, the output of every file of the
\* batch whose own task does not raise is written, wherever the failing task
\* sits and however the tasks interleave.
C11_Original ==
    BatchOver =>
        \A i \in 1..Len(filename) :
            filename[i] \notin bad => MainPath(script, filename[i]) \in exists

-----------------------------------------------------------------------------
(* The main of detect_ARs.py on one file: checks, output files, slice loop *)

MaxSlices == 3   \* time steps of an input file
MaxRecs == 1     \* records the detector finds in a slice
MaxRuns == 2     \* runs of main on the same input file

\* the shapes of the fields after sliceData(...).squeeze(): (time, lat, lon)
\* with any number of time steps but one, or (lat, lon) for a file of one
\* time step
Dims ==
    { <<nt, 2, 2>> : nt \in {0} \cup 2..MaxSlices } \cup { <<2, 2, 3>>, <<2, 2>> }

NTimes(shape) == IF Len(shape) = 3 THEN shape[1] ELSE 0

\* what the detector yields for a file of nt time steps: for every time
\* step the number of records of that slice
YieldsOf(nt) == [ 1..nt -> 0..MaxRecs ]

SameShapes == shapes.ivt = shapes.ivt_rec /\ shapes.ivt = shapes.ivt_ano

\* main, lines 190-202: the three variables of the file are read
InitMain ==
    /\ IdleDecomp /\ IdleDetect /\ IdleTrack /\ IdleBatch /\ SourceFlags
    /\ pc = "m_read"
    /\ shapes \in [ ivt : Dims, ivt_rec : Dims, ivt_ano : Dims ]
    /\ yields \in YieldsOf(NTimes(shapes.ivt))
    /\ tidx = 0
    /\ dfout = <<>> /\ ncfout = <<>>
    /\ runs = 1

\* main, lines 205-213: the dummy fluxes take the shape of ivt, then the
\* shape check
MainCheck ==
    /\ pc = "m_read"
    /\ LET qu == shapes.ivt
           qv == shapes.ivt
       IN  pc' = IF Len(qu) # 3 \/ Len(qv) # 3 THEN "m_raised"
                 ELSE IF qu # qv \/ shapes.ivt # qu THEN "m_raised"
                 ELSE "m_checked"
    /\ UNCHANGED <<thrVars, detVars, trkVars, cfgVars, batVars, runVars>>

\* main, lines 221-243: the label file is created anew, the record file is
\* opened for appending
MainOpen ==
    /\ pc = "m_checked"
    /\ ncfout' = <<>>
    /\ pc' = "m_opened"
    /\ UNCHANGED <<thrVars, detVars, trkVars, cfgVars, batVars,
                   shapes, yields, tidx, dfout, runs>>

\* main, lines 248-251: the detector is created and primed
MainPrime ==
    /\ pc = "m_opened"
    /\ pc' = "m_looping"
    /\ UNCHANGED <<thrVars, detVars, trkVars, cfgVars, batVars, runVars>>

\* the detector may refuse fields of different shapes when it is primed
MainPrimeRaises ==
    /\ pc = "m_opened"
    /\ ~SameShapes
    /\ pc' = "m_detector_raised"
    /\ UNCHANGED <<thrVars, detVars, trkVars, cfgVars, batVars, runVars>>

\* the lines of the record file: the header line and the line of the k-th
\* record of the slice t
Header == [ line |-> "header", time |-> 0, record |-> 0 ]
Row(t, k) == [ line |-> "record", time |-> t, record |-> k ]

\* result_df.to_csv(dfout, header=dfout.tell()==0, index=False)
ToCsv(file, t, n) ==
    file \o (IF file = <<>> THEN << Header >> ELSE <<>>)
         \o [ k \in 1..n |-> Row(t, k) ]

\* main, lines 253-262, one slice: the records are appended, the labels are
\* saved, and the names angle and cross of lines 261-262 are not defined
MainSlice ==
    /\ pc = "m_looping"
    /\ tidx < Len(yields)
    /\ dfout' = ToCsv(dfout, tidx + 1, yields[tidx + 1])
    /\ ncfout' = Append(ncfout, [ var |-> "label", time |-> tidx + 1 ])
    /\ tidx' = tidx + 1
    /\ pc' = "m_nameerror"
    /\ UNCHANGED <<thrVars, detVars, trkVars, cfgVars, batVars, shapes, yields, runs>>

\* main, line 298: the loop is over and the label file is closed
MainClose ==
    /\ pc = "m_looping"
    /\ tidx = Len(yields)
    /\ pc' = "m_done"
    /\ UNCHANGED <<thrVars, detVars, trkVars, cfgVars, batVars, runVars>>

RunEnded == pc \in { "m_raised", "m_detector_raised", "m_nameerror", "m_done" }

\* __main__, lines 311-331: every file of the list is given to main again
MainRerun ==
    /\ RunEnded
    /\ runs < MaxRuns
    /\ runs' = runs + 1
    /\ tidx' = 0
    /\ pc' = "m_read"
    /\ UNCHANGED <<thrVars, detVars, trkVars, cfgVars, batVars,
                   shapes, yields, dfout, ncfout>>

NextMain ==
    \/ MainCheck
    \/ MainOpen
    \/ MainPrime
    \/ MainPrimeRaises
    \/ MainSlice
    \/ MainClose
    \/ MainRerun

SpecMain == InitMain /\ [][NextMain]_vars

-----------------------------------------------------------------------------
(* Claims on the main of detect_ARs.py *)

\* C12 as stated: when the fields read for a file do not all have the same
\* shape, main raises at its shape check: it does not get past the check,
\* and no record and no label is written.
C12_Original ==
    (~SameShapes /\ runs = 1) =>
        /\ pc \in { "m_read", "m_raised" }
        /\ dfout = <<>> /\ ncfout = <<>>

\* C12 witness: fields of different shapes pass the shape check, the output
\* files are opened and records and labels are written
C12_Witness ==
    /\ ~SameShapes /\ runs = 1
    /\ pc = "m_nameerror"
    /\ Len(dfout) > 1 /\ ncfout # <<>>

\* the input is one main accepts: three dimensions, equal shapes, and at
\* least one time step
GoodInput == SameShapes /\ Len(shapes.ivt) = 3 /\ Len(yields) >= 1

\* the number of lines of the record file that are x
CountLines(x) == Cardinality({ i \in 1..Len(dfout) : dfout[i] = x })

Saved(v, t) == \E i \in 1..Len(ncfout) : ncfout[i] = [ var |-> v, time |-> t ]

\* the slice t is on disk: its records and its labels, angles and
\* cross-fluxes
OnDisk(t) ==
    /\ \A k \in 1..yields[t] : CountLines(Row(t, k)) >= 1
    /\ Saved("label", t) /\ Saved("angle", t) /\ Saved("cross", t)

\* C13 as stated: every slice main has handled is on disk, records, labels,
\* angles and cross-fluxes, before the next slice is handled, and when main
\* ends every slice the detector yields has been handled.
C13_Original ==
    (GoodInput /\ runs = 1) =>
        /\ \A t \in 1..tidx : OnDisk(t)
        /\ RunEnded => tidx = Len(yields)

\* C13 witness: main has ended at the first of several slices
C13_Witness ==
    /\ GoodInput /\ runs = 1
    /\ pc = "m_nameerror" /\ tidx = 1 /\ Len(yields) > 1

\* C16 as stated: after any sequence of runs of main on the same file, the
\* record file starts with the header, holds the header once and holds the
\* records of every slice once.
C16_Original ==
    (GoodInput /\ RunEnded) =>
        /\ dfout # <<>> /\ dfout[1] = Header
        /\ CountLines(Header) = 1
        /\ \A t \in 1..Len(yields) : \A k \in 1..yields[t] :
              CountLines(Row(t, k)) = 1

\* C16 witness: after the second run a record is in the file twice
C16_Witness ==
    /\ GoodInput /\ RunEnded /\ runs = 2
    /\ \E t \in 1..Len(yields) : \E k \in 1..yields[t] :
          CountLines(Row(t, k)) = 2

-----------------------------------------------------------------------------
(* Claims on the end of the tracking main *)

\* C14 as stated: for every setting of PLOT and SCHEMATIC and every number
\* of tracks that survive the filter, zero included, main reaches the save
\* step and writes the track file: it never ends on an unassigned name.
C14_Original == pc \notin { "t_unbound", "t_nameerror" }

\* C14 witness: with the flags as the script sets them, tracks were found,
\* none survived the filter, and main ended at line 140 with no file written
C14_Witness ==
    /\ pc = "t_nameerror"
    /\ PLOT /\ ~SCHEMATIC
    /\ tracked # <<>> /\ track_list = <<>>
    /\ csv = <<>>

-----------------------------------------------------------------------------
(* Claims on the skip-if-done check *)

\* the names the slices of the scripts are cut for: a record file that ends
\* in .csv, an IVT file whose base name has 18 characters and ends in .nc
Conforms(s, file) ==
    IF s = "trace_ARs" THEN SliceFrom(file, -4) = CsvExt
    ELSE Len(Basename(file)) = 18 /\ SliceFrom(file, -3) = NcExt

=============================================================================
